---- MODULE Spec2Model ----
(***************************************************************************)
(* A model of ebert, the GitHub account risk analyser.                     *)
(*                                                                         *)
(* Time is counted in whole hours.  Every score of the program is 50 plus  *)
(* or minus literals that are multiples of 5, so the float64 scores are    *)
(* integers here, and their mean (a sum of five multiples of 5, over 5) is *)
(* an integer too.  The float64 comparisons of a quotient with a literal   *)
(* (a/n > 0.3, n*0.3, s*0.1, c/3.0 > 20) are written cross-multiplied over *)
(* the integers; IEEE-754 division and multiplication are correctly        *)
(* rounded, which makes the two forms agree for every count below 2^50,    *)
(* and for a zero divisor the cross-multiplied form agrees with the        *)
(* +Inf / -Inf / NaN the float64 division produces.                        *)
(***************************************************************************)
EXTENDS Integers, Sequences, FiniteSets, TLC

VARIABLES
    ghUser,      \* the profile the remote API holds
    ghRepos,     \* the repository list the remote API holds
    ghEvents,    \* the event list the remote API holds
    pc,          \* position of the run: main -> Analyze -> exit
    page,        \* page counter of the running GetRepos / GetEvents loop
    user,        \* result of GetUser
    repos,       \* allRepos / result of GetRepos
    events,      \* allEvents / result of GetEvents
    coreRuns,    \* number of times performAnalysis was invoked
    analysis,    \* the *Analysis returned by Analyze (NoAnalysis = nil)
    err,         \* the error returned by Analyze ("" = nil)
    divisors,    \* the divisors of the divisions the last core run performed
    exitStatus,  \* process exit status (-1 while running)
    call         \* the last direct call of a scoring function (unit harness)

vars == <<ghUser, ghRepos, ghEvents, pc, page, user, repos, events,
          coreRuns, analysis, err, divisors, exitStatus, call>>

----------------------------------------------------------------------------
(* Bounds of the model *)

MaxRepos == 2        \* longest repository list of the remote account
MaxEvents == 2       \* longest event list of the remote account
MaxRepoCount == 20   \* largest repository count handed to a scoring function
PerPage == 2         \* page size of the remote API (per_page=100, scaled down)

(* Program constants *)

HoursPerDay == 24
Baseline == 50       \* score := 50.0

----------------------------------------------------------------------------
(* Helpers *)

\* Go's int(x) and integer division truncate toward zero (b > 0).
TruncDiv(a, b) == IF a >= 0 THEN a \div b ELSE -((-a) \div b)

SeqsUpTo(S, n) == UNION {[1..k -> S] : k \in 0..n}

clamp(value, min, max) ==
    IF value < min THEN min
    ELSE IF value > max THEN max
    ELSE value

----------------------------------------------------------------------------
(* Metrics aggregator *)

ZeroMetrics ==
    [AccountAgeDays |-> 0, Repos |-> 0, Stars |-> 0, Forks |-> 0,
     Followers |-> 0, RecentCommits |-> 0, RecentlyUpdated |-> 0,
     Archived |-> 0, NPMPackages |-> 0, PythonPackages |-> 0]

accountAgeOfFloor(u, now) == (now - u.CreatedAt) \div HoursPerDay

\* accountAge := int(now.Sub(user.CreatedAt).Hours() / 24)
accountAgeOf(u, now) == TruncDiv(now - u.CreatedAt, HoursPerDay)

analyzeRepoAssign(m, repo, now) ==
    LET m1 == [m EXCEPT !.Stars = repo.StargazersCount,
                        !.Forks = @ + repo.ForksCount]
        m2 == IF repo.Archived THEN [m1 EXCEPT !.Archived = @ + 1] ELSE m1
        m3 == IF now - repo.UpdatedAt <= 30 * HoursPerDay
              THEN [m2 EXCEPT !.RecentlyUpdated = @ + 1] ELSE m2
    IN  IF repo.Language = "JavaScript" \/ repo.Language = "TypeScript"
        THEN [m3 EXCEPT !.NPMPackages = @ + 1]
        ELSE IF repo.Language = "Python"
             THEN [m3 EXCEPT !.PythonPackages = @ + 1]
             ELSE m3

\* body of the loop over repos; daysSinceUpdate <= 30 with daysSinceUpdate
\* the unrounded hours / 24
analyzeRepo(m, repo, now) ==
    LET m1 == [m EXCEPT !.Stars = @ + repo.StargazersCount,
                        !.Forks = @ + repo.ForksCount]
        m2 == IF repo.Archived THEN [m1 EXCEPT !.Archived = @ + 1] ELSE m1
        m3 == IF now - repo.UpdatedAt <= 30 * HoursPerDay
              THEN [m2 EXCEPT !.RecentlyUpdated = @ + 1] ELSE m2
    IN  IF repo.Language = "JavaScript" \/ repo.Language = "TypeScript"
        THEN [m3 EXCEPT !.NPMPackages = @ + 1]
        ELSE IF repo.Language = "Python"
             THEN [m3 EXCEPT !.PythonPackages = @ + 1]
             ELSE m3

analyzeEventAnyType(m, event, now) ==
    IF now - event.CreatedAt <= 90 * HoursPerDay
    THEN [m EXCEPT !.RecentCommits = @ + event.Commits]
    ELSE m

\* body of the loop over events; Commits is len(event.Payload.Commits)
analyzeEvent(m, event, now) ==
    IF now - event.CreatedAt <= 90 * HoursPerDay /\ event.Type = "PushEvent"
    THEN [m EXCEPT !.RecentCommits = @ + event.Commits]
    ELSE m

RECURSIVE reposLoop(_, _, _, _)
reposLoop(m, rs, i, now) ==
    IF i > Len(rs) THEN m
    ELSE reposLoop(analyzeRepo(m, rs[i], now), rs, i + 1, now)

RECURSIVE eventsLoop(_, _, _, _)
eventsLoop(m, es, i, now) ==
    IF i > Len(es) THEN m
    ELSE eventsLoop(analyzeEvent(m, es[i], now), es, i + 1, now)

calculateMetrics(u, rs, es, accountAge, now) ==
    LET m0 == [ZeroMetrics EXCEPT !.AccountAgeDays = accountAge,
                                  !.Repos = Len(rs),
                                  !.Followers = u.Followers]
    IN  eventsLoop(reposLoop(m0, rs, 1, now), es, 1, now)

----------------------------------------------------------------------------
(* Scoring engine *)

calculateIdentityScoreStacked(u, accountAge) ==
    LET s0 == Baseline
        s1 == s0 + (IF accountAge > 730 THEN -20 ELSE 0)
                 + (IF accountAge > 365 THEN -10 ELSE 0)
                 + (IF accountAge < 90 THEN 30 ELSE 0)
        s2 == IF u.Company # "" THEN s1 - 10 ELSE s1
        s3 == IF u.Email # "" THEN s2 - 5 ELSE s2
        s4 == IF u.Blog # "" THEN s3 - 5 ELSE s3
        s5 == IF u.TwitterUsername # "" THEN s4 - 5 ELSE s4
        s6 == IF u.Name = "" THEN s5 + 10 ELSE s5
    IN  clamp(s6, 0, 100)

\* score of calculateIdentityScore before its clamp
identityAdjusted(u, accountAge) ==
    LET s0 == Baseline
        s1 == IF accountAge > 730 THEN s0 - 20
              ELSE IF accountAge > 365 THEN s0 - 10
              ELSE IF accountAge < 90 THEN s0 + 30
              ELSE s0
        s2 == IF u.Company # "" THEN s1 - 10 ELSE s1
        s3 == IF u.Email # "" THEN s2 - 5 ELSE s2
        s4 == IF u.Blog # "" THEN s3 - 5 ELSE s3
        s5 == IF u.TwitterUsername # "" THEN s4 - 5 ELSE s4
        s6 == IF u.Name = "" THEN s5 + 10 ELSE s5
    IN  s6

calculateIdentityScore(u, accountAge) ==
    clamp(identityAdjusted(u, accountAge), 0, 100)

\* commitsPerMonth = RecentCommits / 3.0, compared with 20, 10 and 2;
\* RecentlyUpdated > totalRepos * 0.3
activityAdjustedWide(metrics, accountAge, totalRepos) ==
    LET s0 == Baseline
        s1 == IF metrics.RecentCommits > 20 * 3 THEN s0 - 20
              ELSE IF metrics.RecentCommits > 10 * 3 THEN s0 - 10
              ELSE IF metrics.RecentCommits < 2 * 3 THEN s0 + 20
              ELSE s0
        s2 == IF metrics.RecentlyUpdated = 0 /\ totalRepos > 0 THEN s1 + 40
              ELSE IF 10 * metrics.RecentlyUpdated > 3 * totalRepos
                   THEN s1 - 10
                   ELSE s1
    IN  s2

\* score of calculateActivityScore before its clamp
activityAdjusted(metrics, accountAge, totalRepos) ==
    LET s0 == Baseline
        s1 == IF metrics.RecentCommits > 20 * 3 THEN s0 - 20
              ELSE IF metrics.RecentCommits > 10 * 3 THEN s0 - 10
              ELSE IF metrics.RecentCommits < 2 * 3 THEN s0 + 20
              ELSE s0
        s2 == IF metrics.RecentlyUpdated = 0 /\ totalRepos > 0 THEN s1 + 30
              ELSE IF 10 * metrics.RecentlyUpdated > 3 * totalRepos
                   THEN s1 - 10
                   ELSE s1
    IN  s2

calculateActivityScore(metrics, accountAge, totalRepos) ==
    clamp(activityAdjusted(metrics, accountAge, totalRepos), 0, 100)

\* score of calculateQualityScore past its len(repos) == 0 guard, before
\* its clamp;
\* avgStars = Stars / len(repos); Forks > Stars * 0.1
qualityAdjusted(n, metrics) ==
    LET s0 == Baseline
        s1 == IF metrics.Stars > 50 * n THEN s0 - 20
              ELSE IF metrics.Stars > 10 * n THEN s0 - 10
              ELSE IF metrics.Stars < 1 * n THEN s0 + 10
              ELSE s0
        s2 == IF metrics.Stars > 0 /\ 10 * metrics.Forks > metrics.Stars
              THEN s1 - 10 ELSE s1
    IN  s2

calculateQualityScoreUnguarded(rs, metrics) ==
    clamp(qualityAdjusted(Len(rs), metrics), 0, 100)

calculateQualityScore(rs, metrics) ==
    IF Len(rs) = 0 THEN Baseline
    ELSE clamp(qualityAdjusted(Len(rs), metrics), 0, 100)

\* archivedRatio = Archived / totalRepos, activeRatio = RecentlyUpdated /
\* totalRepos, compared with 0.5, 0.3 and 0
calculateMaintenanceScoreInclusive(metrics, totalRepos) ==
    IF totalRepos = 0 THEN Baseline
    ELSE
      LET s0 == Baseline
          s1 == IF 2 * metrics.Archived >= totalRepos THEN s0 + 30
                ELSE IF 10 * metrics.Archived >= 3 * totalRepos THEN s0 + 15
                ELSE s0
          s2 == IF 2 * metrics.RecentlyUpdated > totalRepos THEN s1 - 20
                ELSE IF 10 * metrics.RecentlyUpdated > 3 * totalRepos
                     THEN s1 - 10
                ELSE IF metrics.RecentlyUpdated = 0 /\ totalRepos > 0
                     THEN s1 + 20
                ELSE s1
      IN  clamp(s2, 0, 100)

\* score of calculateMaintenanceScore past its totalRepos == 0 guard,
\* before its clamp
maintenanceAdjusted(metrics, totalRepos) ==
    LET s0 == Baseline
        s1 == IF 2 * metrics.Archived > totalRepos THEN s0 + 30
              ELSE IF 10 * metrics.Archived > 3 * totalRepos THEN s0 + 15
              ELSE s0
        s2 == IF 2 * metrics.RecentlyUpdated > totalRepos THEN s1 - 20
              ELSE IF 10 * metrics.RecentlyUpdated > 3 * totalRepos
                   THEN s1 - 10
              ELSE IF metrics.RecentlyUpdated = 0 /\ totalRepos > 0
                   THEN s1 + 20
              ELSE s1
    IN  s2

calculateMaintenanceScore(metrics, totalRepos) ==
    IF totalRepos = 0 THEN Baseline
    ELSE clamp(maintenanceAdjusted(metrics, totalRepos), 0, 100)

calculateCommunityScoreStacked(metrics) ==
    LET s0 == Baseline
        s1 == s0 + (IF metrics.Followers > 500 THEN -25 ELSE 0)
                 + (IF metrics.Followers > 100 THEN -15 ELSE 0)
                 + (IF metrics.Followers > 50 THEN -10 ELSE 0)
                 + (IF metrics.Followers < 10 THEN 15 ELSE 0)
        s2 == IF metrics.Stars > 1000 THEN s1 - 15
              ELSE IF metrics.Stars > 100 THEN s1 - 10
              ELSE IF metrics.Stars < 10 /\ metrics.Repos > 5 THEN s1 + 10
              ELSE s1
    IN  clamp(s2, 0, 100)

\* score of calculateCommunityScore before its clamp
communityAdjusted(metrics) ==
    LET s0 == Baseline
        s1 == IF metrics.Followers > 500 THEN s0 - 25
              ELSE IF metrics.Followers > 100 THEN s0 - 15
              ELSE IF metrics.Followers > 50 THEN s0 - 10
              ELSE IF metrics.Followers < 10 THEN s0 + 15
              ELSE s0
        s2 == IF metrics.Stars > 1000 THEN s1 - 15
              ELSE IF metrics.Stars > 100 THEN s1 - 10
              ELSE IF metrics.Stars < 10 /\ metrics.Repos > 5 THEN s1 + 10
              ELSE s1
    IN  s2

calculateCommunityScore(metrics) == clamp(communityAdjusted(metrics), 0, 100)

\* the five values of score handed to return, before any clamp
unclampedScores(u, rs, metrics, accountAge) ==
    [Identity |-> identityAdjusted(u, accountAge),
     Activity |-> activityAdjusted(metrics, accountAge, Len(rs)),
     Quality |-> IF Len(rs) = 0 THEN Baseline
                 ELSE qualityAdjusted(Len(rs), metrics),
     Maintenance |-> IF Len(rs) = 0 THEN Baseline
                     ELSE maintenanceAdjusted(metrics, Len(rs)),
     Community |-> communityAdjusted(metrics)]

\* scores := RiskScores{...}
riskScores(u, rs, metrics, accountAge) ==
    [Identity |-> calculateIdentityScore(u, accountAge),
     Activity |-> calculateActivityScore(metrics, accountAge, Len(rs)),
     Quality |-> calculateQualityScore(rs, metrics),
     Maintenance |-> calculateMaintenanceScore(metrics, Len(rs)),
     Community |-> calculateCommunityScore(metrics)]

----------------------------------------------------------------------------
(* Flag generator.  A message is its kind with the numbers it             *)
(* interpolates; the wording is presentation.                              *)

accountAgeFlagsAdjacent(accountAge) ==
    [red |-> IF accountAge < 180
             THEN <<<<"AccountOnlyMonthsOld", TruncDiv(accountAge, 30)>>>>
             ELSE <<>>,
     pos |-> IF accountAge >= 180
             THEN <<<<"EstablishedAccount", TruncDiv(accountAge, 365)>>>>
             ELSE <<>>]

\* the "Account age" rule: what it appends to redFlags and to positives
accountAgeFlags(accountAge) ==
    [red |-> IF accountAge < 180
             THEN <<<<"AccountOnlyMonthsOld", TruncDiv(accountAge, 30)>>>>
             ELSE <<>>,
     pos |-> IF ~(accountAge < 180) /\ accountAge > 365
             THEN <<<<"EstablishedAccount", TruncDiv(accountAge, 365)>>>>
             ELSE <<>>]

contactFlagsIgnoringEmail(u) ==
    IF u.Company = "" /\ u.Blog = ""
    THEN [warn |-> <<<<"NoContactInformation">>>>, pos |-> <<>>]
    ELSE [warn |-> <<>>,
          pos |-> (IF u.Company # "" THEN <<<<"AffiliatedWith", u.Company>>>>
                   ELSE <<>>)
                  \o (IF u.Blog # "" THEN <<<<"HasBlog">>>> ELSE <<>>)]

\* the "Contact info" rule: what it appends to warnings and to positives
contactFlags(u) ==
    IF u.Company = "" /\ u.Blog = "" /\ u.Email = ""
    THEN [warn |-> <<<<"NoContactInformation">>>>, pos |-> <<>>]
    ELSE [warn |-> <<>>,
          pos |-> (IF u.Company # "" THEN <<<<"AffiliatedWith", u.Company>>>>
                   ELSE <<>>)
                  \o (IF u.Blog # "" THEN <<<<"HasBlog">>>> ELSE <<>>)]

generateFlags(u, metrics, accountAge, totalRepos) ==
    LET age == accountAgeFlags(accountAge)
        contact == contactFlags(u)
        \* archived / total > 0.3, guarded by total > 0
        archivedHigh == totalRepos > 0 /\ 10 * metrics.Archived > 3 * totalRepos
    IN  [RedFlags |->
            age.red
            \o (IF archivedHigh
                THEN <<<<"HighArchived", metrics.Archived, totalRepos>>>>
                ELSE <<>>)
            \o (IF metrics.RecentlyUpdated = 0 /\ totalRepos > 0
                THEN <<<<"NoRecentUpdates">>>> ELSE <<>>),
         Warnings |->
            (IF metrics.Followers < 10 THEN <<<<"LowFollowers">>>> ELSE <<>>)
            \o (IF metrics.RecentCommits < 10
                THEN <<<<"LowRecentActivity">>>> ELSE <<>>)
            \o contact.warn
            \o (IF metrics.Stars < 10 /\ totalRepos > 5
                THEN <<<<"LowEngagement">>>> ELSE <<>>),
         Positives |->
            age.pos
            \o (IF ~(metrics.Followers < 10) /\ metrics.Followers > 100
                THEN <<<<"StrongFollowing", metrics.Followers>>>> ELSE <<>>)
            \o (IF ~(metrics.RecentCommits < 10) /\ metrics.RecentCommits > 50
                THEN <<<<"ActiveContributor", metrics.RecentCommits>>>>
                ELSE <<>>)
            \o contact.pos]

----------------------------------------------------------------------------
(* Divisions performed.  float64 division by zero does not trap, so the   *)
(* divisors are recorded beside the scores.                                *)

qualityDivisors(rs, metrics) == IF Len(rs) = 0 THEN {} ELSE {Len(rs)}

maintenanceDivisors(metrics, totalRepos) ==
    IF totalRepos = 0 THEN {} ELSE {totalRepos}

\* Go's && evaluates the division only when totalRepos > 0
flagDivisors(metrics, totalRepos) ==
    IF totalRepos > 0 THEN {totalRepos} ELSE {}

----------------------------------------------------------------------------
(* performAnalysis *)

overallScoreSum(scores) ==
    scores.Identity + scores.Activity + scores.Quality
        + scores.Maintenance + scores.Community

\* (Identity + Activity + Quality + Maintenance + Community) / 5; the sum is
\* a multiple of 5
overallScoreOf(scores) ==
    (scores.Identity + scores.Activity + scores.Quality
        + scores.Maintenance + scores.Community) \div 5

riskLevelExclusive(overallScore) ==
    IF overallScore > 60 THEN "high"
    ELSE IF overallScore > 30 THEN "medium"
    ELSE "low"

riskLevelOf(overallScore) ==
    IF overallScore >= 60 THEN "high"
    ELSE IF overallScore >= 30 THEN "medium"
    ELSE "low"

performAnalysis(u, rs, es, now) ==
    LET accountAge == accountAgeOf(u, now)
        metrics == calculateMetrics(u, rs, es, accountAge, now)
        scores == riskScores(u, rs, metrics, accountAge)
        overallScore == overallScoreOf(scores)
        flags == generateFlags(u, metrics, accountAge, Len(rs))
    IN  [User |-> u,
         Scores |-> scores,
         OverallScore |-> overallScore,
         RiskLevel |-> riskLevelOf(overallScore),
         Metrics |-> metrics,
         RedFlags |-> flags.RedFlags,
         Warnings |-> flags.Warnings,
         Positives |-> flags.Positives,
         Timestamp |-> now]

\* the divisors of one performAnalysis: commitsPerMonth (3.0), the two
\* guarded ratios, the mean (5), the flag generator's guarded ratio, and the
\* day conversions (24)
analysisDivisors(rs, metrics) ==
    {3, 5, HoursPerDay} \cup qualityDivisors(rs, metrics)
        \cup maintenanceDivisors(metrics, Len(rs))
        \cup flagDivisors(metrics, Len(rs))

----------------------------------------------------------------------------
(* The accounts the remote API may hold *)

\* a time the given days and hours before hour 20000
Ago(days, hours) == 20000 - days * HoursPerDay - hours

\* the values time.Now() may return in performAnalysis
NowValues == {Ago(0, 0), Ago(0, -1)}

CreatedValues ==
    {Ago(731, 0), Ago(365, 23), Ago(89, 23), Ago(0, -10), Ago(0, -30)}

Contacts ==
    {[Name |-> "", Company |-> "", Email |-> "", Blog |-> "",
      TwitterUsername |-> "", Followers |-> 5],
     [Name |-> "Ann", Company |-> "", Email |-> "ann@example.org",
      Blog |-> "", TwitterUsername |-> "", Followers |-> -3],
     [Name |-> "Ann", Company |-> "Acme", Email |-> "ann@example.org",
      Blog |-> "example.org", TwitterUsername |-> "ann", Followers |-> 120]}

GitHubUsers ==
    {[Name |-> c.Name, Company |-> c.Company, Email |-> c.Email,
      Blog |-> c.Blog, TwitterUsername |-> c.TwitterUsername,
      Followers |-> c.Followers, CreatedAt |-> t] :
        c \in Contacts, t \in CreatedValues}

GitHubRepos ==
    {[StargazersCount |-> 0, ForksCount |-> 0, Archived |-> TRUE,
      UpdatedAt |-> Ago(400, 0), Language |-> "JavaScript"],
     [StargazersCount |-> 5, ForksCount |-> 1, Archived |-> FALSE,
      UpdatedAt |-> Ago(30, 0), Language |-> "Python"],
     [StargazersCount |-> 2000, ForksCount |-> 300, Archived |-> FALSE,
      UpdatedAt |-> Ago(1, 0), Language |-> "TypeScript"],
     [StargazersCount |-> -4, ForksCount |-> -1, Archived |-> TRUE,
      UpdatedAt |-> Ago(0, -5), Language |-> ""]}

GitHubEvents ==
    {[Type |-> "PushEvent", CreatedAt |-> Ago(90, 0), Commits |-> 7],
     [Type |-> "PushEvent", CreatedAt |-> Ago(2, 0), Commits |-> 64],
     [Type |-> "WatchEvent", CreatedAt |-> Ago(1, 0), Commits |-> 1]}

NoUser ==
    [Name |-> "", Company |-> "", Email |-> "", Blog |-> "",
     TwitterUsername |-> "", Followers |-> 0, CreatedAt |-> 0]

NoFlags == [RedFlags |-> <<>>, Warnings |-> <<>>, Positives |-> <<>>]

NoAnalysis ==
    [User |-> NoUser,
     Scores |-> [Identity |-> 0, Activity |-> 0, Quality |-> 0,
                 Maintenance |-> 0, Community |-> 0],
     OverallScore |-> 0, RiskLevel |-> "", Metrics |-> ZeroMetrics,
     RedFlags |-> <<>>, Warnings |-> <<>>, Positives |-> <<>>,
     Timestamp |-> 0]

NoCall ==
    [fn |-> "none", user |-> NoUser, accountAge |-> 0, repos |-> <<>>,
     metrics |-> ZeroMetrics, totalRepos |-> 0, score |-> 0,
     unclamped |-> 0, scores |-> NoAnalysis.Scores,
     unclampedScores |-> NoAnalysis.Scores, overallScore |-> 0,
     flags |-> NoFlags, divisors |-> {}]

----------------------------------------------------------------------------
(* The run of the program: main -> Analyze -> performAnalysis -> exit *)

Init ==
    /\ ghUser \in GitHubUsers
    /\ ghRepos \in SeqsUpTo(GitHubRepos, MaxRepos)
    /\ ghEvents \in SeqsUpTo(GitHubEvents, MaxEvents)
    /\ pc = "getUser"
    /\ page = 1
    /\ user = NoUser
    /\ repos = <<>>
    /\ events = <<>>
    /\ coreRuns = 0
    /\ analysis = NoAnalysis
    /\ err = ""
    /\ divisors = {}
    /\ exitStatus = -1
    /\ call = NoCall

\* the items of page p (1-based) of a list served PerPage at a time
PageOf(list, p) ==
    SubSeq(list, (p - 1) * PerPage + 1,
           IF p * PerPage < Len(list) THEN p * PerPage ELSE Len(list))

\* user, err := a.client.GetUser(username)
GetUser ==
    /\ pc = "getUser"
    /\ \E ok \in BOOLEAN :
         IF ok
         THEN /\ user' = ghUser
              /\ pc' = "getRepos"
              /\ err' = err
         ELSE /\ user' = user
              /\ pc' = "return"
              /\ err' = "failed to fetch user"
    /\ page' = 1
    /\ UNCHANGED <<ghUser, ghRepos, ghEvents, repos, events, coreRuns,
                   analysis, divisors, exitStatus, call>>

GetReposIgnoringError ==
    /\ pc = "getRepos"
    /\ \E ok \in BOOLEAN :
         LET data == PageOf(ghRepos, page) IN
         IF ~ok
         THEN /\ repos' = repos
              /\ pc' = "getEvents"
              /\ err' = err
              /\ page' = 1
         ELSE /\ err' = err
              /\ repos' = repos \o data
              /\ IF Len(data) = 0 \/ Len(data) < PerPage
                 THEN pc' = "getEvents" /\ page' = 1
                 ELSE pc' = pc /\ page' = page + 1
    /\ UNCHANGED <<ghUser, ghRepos, ghEvents, user, events, coreRuns,
                   analysis, divisors, exitStatus, call>>

\* one iteration of the loop of GetRepos
GetRepos ==
    /\ pc = "getRepos"
    /\ \E ok \in BOOLEAN :
         LET data == PageOf(ghRepos, page) IN
         IF ~ok
         THEN /\ repos' = <<>>
              /\ pc' = "return"
              /\ err' = "failed to fetch repos"
              /\ page' = page
         ELSE /\ err' = err
              /\ repos' = repos \o data
              /\ IF Len(data) = 0 \/ Len(data) < PerPage
                 THEN pc' = "getEvents" /\ page' = 1
                 ELSE pc' = pc /\ page' = page + 1
    /\ UNCHANGED <<ghUser, ghRepos, ghEvents, user, events, coreRuns,
                   analysis, divisors, exitStatus, call>>

\* one iteration of the loop of GetEvents
GetEvents ==
    /\ pc = "getEvents"
    /\ \E ok \in BOOLEAN :
         LET data == PageOf(ghEvents, page) IN
         IF ~ok
         THEN /\ events' = <<>>
              /\ pc' = "return"
              /\ err' = "failed to fetch events"
              /\ page' = page
         ELSE /\ err' = err
              /\ events' = events \o data
              /\ IF Len(data) = 0 \/ Len(data) < PerPage
                 THEN pc' = "analyse" /\ page' = 1
                 ELSE pc' = pc /\ page' = page + 1
    /\ UNCHANGED <<ghUser, ghRepos, ghEvents, user, repos, coreRuns,
                   analysis, divisors, exitStatus, call>>

\* return a.performAnalysis(user, repos, events), nil
PerformAnalysis ==
    /\ pc = "analyse"
    /\ \E now \in NowValues :
         /\ analysis' = performAnalysis(user, repos, events, now)
         /\ divisors' = analysisDivisors(repos,
                calculateMetrics(user, repos, events,
                                 accountAgeOf(user, now), now))
    /\ coreRuns' = coreRuns + 1
    /\ pc' = "return"
    /\ UNCHANGED <<ghUser, ghRepos, ghEvents, page, user, repos, events, err,
                   exitStatus, call>>

\* main after analyzer.Analyze(username) returned
Exit ==
    /\ pc = "return"
    /\ exitStatus' = IF err # "" THEN 1 ELSE 0
    /\ pc' = "exited"
    /\ UNCHANGED <<ghUser, ghRepos, ghEvents, page, user, repos, events,
                   coreRuns, analysis, err, divisors, call>>

Next == GetUser \/ GetRepos \/ GetEvents \/ PerformAnalysis \/ Exit

Spec == Init /\ [][Next]_vars

----------------------------------------------------------------------------
(* Direct calls of the scoring functions, one call per behaviour, on      *)
(* arguments around every threshold of the rule table.                    *)

AgeValues ==
    {-400, -1, 0, 89, 90, 91, 179, 180, 181, 364, 365, 366, 400, 730, 731,
     5000}

StarValues ==
    {-5, 0, 1, 5, 9, 10, 11, 50, 100, 101, 500, 501, 1000, 1001, 2000}

ForkValues == {-1, 0, 1, 10, 11, 100, 101, 201}

FollowerValues == {-1, 0, 5, 9, 10, 11, 50, 51, 100, 101, 500, 501}

CommitValues == {0, 3, 5, 6, 9, 10, 30, 31, 50, 51, 60, 61}

RepoCounts == 0..MaxRepoCount

Presence(text) == {"", text}

ArgUsers ==
    {[Name |-> n, Company |-> c, Email |-> e, Blog |-> b,
      TwitterUsername |-> t, Followers |-> 0, CreatedAt |-> 0] :
        n \in Presence("Ann"), c \in Presence("Acme"),
        e \in Presence("ann@example.org"), b \in Presence("example.org"),
        t \in Presence("ann")}

\* a repository list of n entries; the scoring functions read its length only
ArgRepos(n) ==
    [i \in 1..n |-> [StargazersCount |-> 0, ForksCount |-> 0,
                     Archived |-> FALSE, UpdatedAt |-> 0, Language |-> ""]]

InitCall ==
    /\ ghUser = NoUser
    /\ ghRepos = <<>>
    /\ ghEvents = <<>>
    /\ pc = "call"
    /\ page = 1
    /\ user = NoUser
    /\ repos = <<>>
    /\ events = <<>>
    /\ coreRuns = 0
    /\ analysis = NoAnalysis
    /\ err = ""
    /\ divisors = {}
    /\ exitStatus = -1
    /\ call = NoCall

Idle ==
    /\ call.fn = "none"
    /\ UNCHANGED <<ghUser, ghRepos, ghEvents, pc, page, user, repos, events,
                   coreRuns, analysis, err, divisors, exitStatus>>

CallIdentity ==
    /\ Idle
    /\ \E u \in ArgUsers, age \in AgeValues :
         call' = [NoCall EXCEPT !.fn = "calculateIdentityScore",
                                !.user = u, !.accountAge = age,
                                !.score = calculateIdentityScore(u, age),
                                !.unclamped = identityAdjusted(u, age)]

CallActivity ==
    /\ Idle
    /\ \E rc \in CommitValues, ru \in RepoCounts, n \in RepoCounts :
         LET m == [ZeroMetrics EXCEPT !.RecentCommits = rc,
                                      !.RecentlyUpdated = ru, !.Repos = n]
         IN  call' = [NoCall EXCEPT !.fn = "calculateActivityScore",
                                    !.metrics = m, !.totalRepos = n,
                                    !.score = calculateActivityScore(m, 0, n),
                                    !.unclamped = activityAdjusted(m, 0, n),
                                    !.divisors = {3}]

CallQuality ==
    /\ Idle
    /\ \E n \in RepoCounts, st \in StarValues, fk \in ForkValues,
          ar \in {0, 3}, ru \in {0, 2} :
         LET m == [ZeroMetrics EXCEPT !.Stars = st, !.Forks = fk,
                                      !.Archived = ar,
                                      !.RecentlyUpdated = ru, !.Repos = n]
             rs == ArgRepos(n)
         IN  call' = [NoCall EXCEPT !.fn = "calculateQualityScore",
                                    !.metrics = m, !.repos = rs,
                                    !.totalRepos = n,
                                    !.score = calculateQualityScore(rs, m),
                                    !.unclamped =
                                        unclampedScores(NoUser, rs, m, 0).Quality,
                                    !.divisors = qualityDivisors(rs, m)]

CallMaintenance ==
    /\ Idle
    /\ \E n \in RepoCounts, ar \in RepoCounts, ru \in RepoCounts,
          st \in {0, 500}, fk \in {0, 7} :
         LET m == [ZeroMetrics EXCEPT !.Stars = st, !.Forks = fk,
                                      !.Archived = ar,
                                      !.RecentlyUpdated = ru, !.Repos = n]
         IN  call' = [NoCall EXCEPT !.fn = "calculateMaintenanceScore",
                                    !.metrics = m, !.totalRepos = n,
                                    !.score = calculateMaintenanceScore(m, n),
                                    !.unclamped =
                                        unclampedScores(NoUser, ArgRepos(n),
                                                        m, 0).Maintenance,
                                    !.divisors = maintenanceDivisors(m, n)]

CallCommunity ==
    /\ Idle
    /\ \E fo \in FollowerValues, st \in StarValues, n \in RepoCounts :
         LET m == [ZeroMetrics EXCEPT !.Followers = fo, !.Stars = st,
                                      !.Repos = n]
         IN  call' = [NoCall EXCEPT !.fn = "calculateCommunityScore",
                                    !.metrics = m, !.totalRepos = n,
                                    !.score = calculateCommunityScore(m),
                                    !.unclamped = communityAdjusted(m)]

CallFlags ==
    /\ Idle
    /\ \E u \in {x \in ArgUsers : x.Name = "Ann" /\ x.TwitterUsername = ""},
          age \in AgeValues, fo \in {5, 10, 100, 101},
          rc \in {9, 10, 50, 51}, st \in {5, 10}, n \in {0, 5, 6, 10},
          ar \in {0, 3, 4}, ru \in {0, 2} :
         LET m == [ZeroMetrics EXCEPT !.AccountAgeDays = age, !.Repos = n,
                                      !.Followers = fo, !.Stars = st,
                                      !.RecentCommits = rc, !.Archived = ar,
                                      !.RecentlyUpdated = ru]
         IN  call' = [NoCall EXCEPT !.fn = "generateFlags",
                                    !.user = u, !.accountAge = age,
                                    !.metrics = m, !.totalRepos = n,
                                    !.flags = generateFlags(u, m, age, n),
                                    !.divisors = flagDivisors(m, n)]

\* the RiskScores and overallScore of performAnalysis on a Metrics bundle
\* whose counters agree with the repository count
CallScores ==
    /\ Idle
    /\ \E u \in {x \in ArgUsers :
                    /\ (x.Company = "") <=> (x.Email = "")
                    /\ (x.Company = "") <=> (x.Blog = "")
                    /\ (x.Company = "") <=> (x.TwitterUsername = "")},
          age \in {0, 200, 400, 731}, rc \in {0, 7, 31, 61},
          n \in {0, 1, 6}, st \in {0, 5, 60, 2000}, fk \in {0, 300},
          fo \in {5, 30, 60, 120, 600} :
         \E ar \in {0, n}, ru \in {0, n} :
           LET m == [ZeroMetrics EXCEPT !.AccountAgeDays = age, !.Repos = n,
                                        !.Followers = fo, !.Stars = st,
                                        !.Forks = fk, !.RecentCommits = rc,
                                        !.Archived = ar,
                                        !.RecentlyUpdated = ru]
               rs == ArgRepos(n)
               scores == riskScores(u, rs, m, age)
           IN  call' = [NoCall EXCEPT !.fn = "riskScores",
                                      !.user = u, !.accountAge = age,
                                      !.repos = rs, !.metrics = m,
                                      !.totalRepos = n,
                                      !.scores = scores,
                                      !.unclampedScores =
                                          unclampedScores(u, rs, m, age),
                                      !.overallScore = overallScoreOf(scores)]

NextCall ==
    CallIdentity \/ CallActivity \/ CallQuality \/ CallMaintenance
        \/ CallCommunity \/ CallFlags \/ CallScores

SpecCall == InitCall /\ [][NextCall]_vars

----------------------------------------------------------------------------
(* Properties *)

InRange(x) == 0 <= x /\ x <= 100

\* Analyze has just returned the Analysis of a core run
Done == coreRuns > 0 /\ pc = "return"

Max(a, b) == IF a >= b THEN a ELSE b
Min(a, b) == IF a <= b THEN a ELSE b

\* C1: each of the five axis scores produced by performAnalysis, and their
\* mean, lies in [0, 100].
C1_ScoresInRange ==
    Done =>
        /\ InRange(analysis.Scores.Identity)
        /\ InRange(analysis.Scores.Activity)
        /\ InRange(analysis.Scores.Quality)
        /\ InRange(analysis.Scores.Maintenance)
        /\ InRange(analysis.Scores.Community)
        /\ InRange(analysis.OverallScore)
        /\ 5 * analysis.OverallScore =
              analysis.Scores.Identity + analysis.Scores.Activity
                + analysis.Scores.Quality + analysis.Scores.Maintenance
                + analysis.Scores.Community

C1_Witness ==
    /\ Done
    /\ analysis.Scores.Activity = 100
    /\ analysis.Scores.Maintenance = 100
    /\ analysis.Scores.Identity = 90
    /\ analysis.OverallScore > 75

\* C2: the risk tier is decided by the aggregate alone: "high" iff it is at
\* least 60, "medium" iff it is at least 30 and below 60, "low" iff it is
\* below 30, and exactly one of the three is assigned.
C2_TierOfAggregate ==
    Done =>
        /\ analysis.RiskLevel \in {"high", "medium", "low"}
        /\ (analysis.RiskLevel = "high") <=> (analysis.OverallScore >= 60)
        /\ (analysis.RiskLevel = "medium") <=>
              (30 <= analysis.OverallScore /\ analysis.OverallScore < 60)
        /\ (analysis.RiskLevel = "low") <=> (analysis.OverallScore < 30)

C2_Witness ==
    Done /\ analysis.OverallScore = 60 /\ analysis.RiskLevel = "high"

\* the list holds a message of the given kind
HasKind(list, kind) == \E i \in 1..Len(list) : list[i][1] = kind

\* C3: with an empty repository list calculateQualityScore and
\* calculateMaintenanceScore return exactly 50 whatever the other counters
\* are, and no scoring or flag function divides by zero.
C3_ZeroRepos ==
    /\ (call.fn = "calculateQualityScore" /\ Len(call.repos) = 0)
          => call.score = 50
    /\ (call.fn = "calculateMaintenanceScore" /\ call.totalRepos = 0)
          => call.score = 50
    /\ 0 \notin call.divisors

C3_Witness ==
    /\ call.fn = "calculateQualityScore"
    /\ Len(call.repos) = 0
    /\ call.metrics.Stars = 2000
    /\ call.metrics.Forks = 201
    /\ call.metrics.Archived = 3
    /\ call.metrics.RecentlyUpdated = 2
    /\ call.score = 50

\* the active-fraction adjustment of the rule table: over 0.5: -20, over
\* 0.3: -10, exactly 0: +20
ActiveAdjustment(ru, n) ==
    IF 2 * ru > n THEN -20
    ELSE IF 10 * ru > 3 * n THEN -10
    ELSE IF ru = 0 THEN 20
    ELSE 0

\* C4: in calculateMaintenanceScore an archived fraction of exactly 0.5 gets
\* +15 and not +30, an archived fraction of exactly 0.3 gets neither, and 10
\* repositories with 3 archived and 2 recently updated score 50.
C4_StrictArchivedBands ==
    (call.fn = "calculateMaintenanceScore" /\ call.totalRepos >= 1) =>
        LET n == call.totalRepos
            ar == call.metrics.Archived
            active == ActiveAdjustment(call.metrics.RecentlyUpdated, n)
        IN  /\ (2 * ar = n) => call.score = 50 + 15 + active
            /\ (10 * ar = 3 * n) => call.score = 50 + active
            /\ (n = 10 /\ ar = 3 /\ call.metrics.RecentlyUpdated = 2)
                  => call.score = 50

C4_Witness ==
    /\ call.fn = "calculateMaintenanceScore"
    /\ call.totalRepos = 10
    /\ call.metrics.Archived = 3
    /\ call.metrics.RecentlyUpdated = 2
    /\ call.score = 50

\* the age band of the rule table, as four disjoint cases
AgeAdjustment(age) ==
    CASE age > 730 -> -20
      [] 365 < age /\ age <= 730 -> -10
      [] age < 90 -> 30
      [] 90 <= age /\ age <= 365 -> 0

ContactAdjustment(u) ==
    (IF u.Company # "" THEN -10 ELSE 0) + (IF u.Email # "" THEN -5 ELSE 0)
      + (IF u.Blog # "" THEN -5 ELSE 0)
      + (IF u.TwitterUsername # "" THEN -5 ELSE 0)
      + (IF u.Name = "" THEN 10 ELSE 0)

\* C5: calculateIdentityScore is 50 plus exactly one age adjustment plus the
\* independent contact adjustments, clamped to [0, 100]; age 400 with no
\* contact fields and no name gives 50.
C5_IdentityBands ==
    call.fn = "calculateIdentityScore" =>
        /\ call.score =
              Max(0, Min(100, 50 + AgeAdjustment(call.accountAge)
                                 + ContactAdjustment(call.user)))
        /\ (/\ call.accountAge = 400
            /\ call.user.Company = "" /\ call.user.Blog = ""
            /\ call.user.Email = "" /\ call.user.TwitterUsername = ""
            /\ call.user.Name = "") => call.score = 50

C5_Witness ==
    /\ call.fn = "calculateIdentityScore"
    /\ call.accountAge = 400
    /\ call.user.Company = "" /\ call.user.Blog = ""
    /\ call.user.Email = "" /\ call.user.TwitterUsername = ""
    /\ call.user.Name = ""
    /\ call.score = 50

FollowerAdjustment(followers) ==
    CASE followers > 500 -> -25
      [] 100 < followers /\ followers <= 500 -> -15
      [] 50 < followers /\ followers <= 100 -> -10
      [] followers < 10 -> 15
      [] 10 <= followers /\ followers <= 50 -> 0

StarAdjustment(stars, n) ==
    CASE stars > 1000 -> -15
      [] 100 < stars /\ stars <= 1000 -> -10
      [] stars < 10 /\ n > 5 -> 10
      [] (stars < 10 /\ n <= 5) \/ (10 <= stars /\ stars <= 100) -> 0

\* C6: calculateCommunityScore is 50 plus exactly one follower adjustment
\* plus exactly one star adjustment; 5 followers, 5 stars and 10
\* repositories give 75.
C6_CommunityBands ==
    call.fn = "calculateCommunityScore" =>
        /\ call.score = 50 + FollowerAdjustment(call.metrics.Followers)
                           + StarAdjustment(call.metrics.Stars,
                                            call.metrics.Repos)
        /\ (/\ call.metrics.Followers = 5
            /\ call.metrics.Stars = 5
            /\ call.metrics.Repos = 10) => call.score = 75

C6_Witness ==
    /\ call.fn = "calculateCommunityScore"
    /\ call.metrics.Followers = 5
    /\ call.metrics.Stars = 5
    /\ call.metrics.Repos = 10
    /\ call.score = 75

\* the counters of the bundle that count list entries
CountersNonNegative(m) ==
    /\ m.Repos >= 0
    /\ m.RecentCommits >= 0
    /\ m.RecentlyUpdated >= 0
    /\ m.Archived >= 0
    /\ m.NPMPackages >= 0
    /\ m.PythonPackages >= 0

\* C7 as stated: every counter of the Metrics bundle is non-negative for any
\* profile, repository list, event list and current time.
C7_AllCountersNonNegative ==
    Done =>
        /\ CountersNonNegative(analysis.Metrics)
        /\ analysis.Metrics.AccountAgeDays >= 0
        /\ analysis.Metrics.Stars >= 0
        /\ analysis.Metrics.Forks >= 0
        /\ analysis.Metrics.Followers >= 0

\* C7 as amended: the counters that count list entries are non-negative for
\* any input; the account age is negative exactly when the profile was
\* created a whole day or more after the current time; the follower count
\* is the profile's, and the star and fork totals are non-negative when no
\* repository carries a negative count.
C7_CountersNonNegativeForSaneInput ==
    Done =>
        /\ CountersNonNegative(analysis.Metrics)
        /\ (analysis.Metrics.AccountAgeDays < 0) <=>
              (user.CreatedAt - analysis.Timestamp >= HoursPerDay)
        /\ analysis.Metrics.Followers = user.Followers
        /\ (\A i \in 1..Len(repos) : repos[i].StargazersCount >= 0)
              => analysis.Metrics.Stars >= 0
        /\ (\A i \in 1..Len(repos) : repos[i].ForksCount >= 0)
              => analysis.Metrics.Forks >= 0

C7_Witness ==
    /\ Done
    /\ user.CreatedAt > analysis.Timestamp
    /\ analysis.Metrics.AccountAgeDays = 0
    /\ Len(repos) = 2
    /\ analysis.Metrics.Stars > 0
    /\ analysis.Metrics.Archived > 0

RECURSIVE SumCommits(_, _)
SumCommits(es, indices) ==
    IF indices = {} THEN 0
    ELSE LET i == CHOOSE j \in indices : TRUE
         IN  es[i].Commits + SumCommits(es, indices \ {i})

\* C8: the recent-commit counter is the sum of the commit-payload lengths of
\* exactly the events of type "PushEvent" that are at most 90 days old.
C8_RecentCommits ==
    Done =>
        analysis.Metrics.RecentCommits =
            SumCommits(events,
                {i \in 1..Len(events) :
                    /\ events[i].Type = "PushEvent"
                    /\ analysis.Timestamp - events[i].CreatedAt
                          <= 90 * HoursPerDay})

C8_Witness ==
    /\ Done
    /\ Len(events) = 2
    /\ events[1].Type = "WatchEvent" /\ events[1].Commits > 0
    /\ events[2].Type = "PushEvent"
    /\ analysis.Timestamp - events[2].CreatedAt = 90 * HoursPerDay
    /\ analysis.Metrics.RecentCommits = events[2].Commits

\* the reorderings of a list
Reorderings(list) ==
    LET n == Len(list)
    IN  {[i \in 1..n |-> list[f[i]]] :
            f \in {g \in [1..n -> 1..n] :
                      \A a, b \in 1..n : a # b => g[a] # g[b]}}

\* C9: for every reordering of the repository list and of the event list
\* calculateMetrics returns the same bundle, and the whole Analysis is the
\* same.
C9_OrderIndependent ==
    Done =>
        \A rs \in Reorderings(repos), es \in Reorderings(events) :
            /\ calculateMetrics(user, rs, es, analysis.Metrics.AccountAgeDays,
                                analysis.Timestamp) = analysis.Metrics
            /\ performAnalysis(user, rs, es, analysis.Timestamp) = analysis

C9_Witness ==
    /\ Done
    /\ Len(repos) = 2 /\ repos[1] # repos[2]
    /\ repos[1].StargazersCount # repos[2].StargazersCount
    /\ Len(events) = 2 /\ events[1] # events[2]
    /\ analysis.Metrics.RecentCommits > 0

\* C10: generateFlags gives the account-age red flag iff the age is below
\* 180 days and the established-account positive iff it is above 365 days,
\* so neither from 180 to 365 days and never both.
C10_AccountAgeFlags ==
    call.fn = "generateFlags" =>
        LET red == HasKind(call.flags.RedFlags, "AccountOnlyMonthsOld")
            pos == HasKind(call.flags.Positives, "EstablishedAccount")
        IN  /\ red <=> (call.accountAge < 180)
            /\ pos <=> (call.accountAge > 365)
            /\ (180 <= call.accountAge /\ call.accountAge <= 365)
                  => (~red /\ ~pos)
            /\ ~(red /\ pos)

C10_Witness ==
    /\ call.fn = "generateFlags"
    /\ call.accountAge = 365
    /\ ~HasKind(call.flags.RedFlags, "AccountOnlyMonthsOld")
    /\ ~HasKind(call.flags.Positives, "EstablishedAccount")


\* C11: generateFlags gives the no-contact-information warning iff company,
\* blog and email are all empty, the company positive iff company is
\* non-empty and the blog positive iff blog is non-empty; a profile with
\* only an email gets none of the three.
C11_ContactFlags ==
    call.fn = "generateFlags" =>
        LET warn == HasKind(call.flags.Warnings, "NoContactInformation")
            company == HasKind(call.flags.Positives, "AffiliatedWith")
            blog == HasKind(call.flags.Positives, "HasBlog")
            u == call.user
        IN  /\ warn <=> (u.Company = "" /\ u.Blog = "" /\ u.Email = "")
            /\ company <=> (u.Company # "")
            /\ blog <=> (u.Blog # "")
            /\ (u.Company = "" /\ u.Blog = "" /\ u.Email # "")
                  => (~warn /\ ~company /\ ~blog)

C11_Witness ==
    /\ call.fn = "generateFlags"
    /\ call.user.Company = "" /\ call.user.Blog = ""
    /\ call.user.Email # ""
    /\ ~HasKind(call.flags.Warnings, "NoContactInformation")
    /\ ~HasKind(call.flags.Positives, "AffiliatedWith")
    /\ ~HasKind(call.flags.Positives, "HasBlog")


\* what holds at every point of a run: a failed fetch leaves an error, no
\* list, no Analysis, no core run and exit status 1; the core has run only
\* on the complete profile, repository list and event list
C12_State ==
    /\ err # "" =>
          /\ pc \in {"return", "exited"}
          /\ analysis = NoAnalysis
          /\ coreRuns = 0
          /\ pc = "exited" => exitStatus = 1
    /\ err = "failed to fetch user" => (repos = <<>> /\ events = <<>>)
    /\ err = "failed to fetch repos" => (repos = <<>> /\ events = <<>>)
    /\ err = "failed to fetch events" => events = <<>>
    /\ pc \in {"getEvents", "analyse"} => (user = ghUser /\ repos = ghRepos)
    /\ pc = "analyse" => events = ghEvents
    /\ coreRuns > 0 =>
          /\ err = ""
          /\ coreRuns = 1
          /\ user = ghUser /\ repos = ghRepos /\ events = ghEvents
    /\ exitStatus = 0 => (err = "" /\ coreRuns = 1)

\* the steps of a run go user, repositories, events, core
C12_Step ==
    /\ pc' = "getRepos" => pc \in {"getUser", "getRepos"}
    /\ pc' = "getEvents" => pc \in {"getRepos", "getEvents"}
    /\ pc' = "analyse" => pc \in {"getEvents", "analyse"}
    /\ coreRuns' # coreRuns => (pc = "analyse" /\ err = "" /\ err' = "")
    /\ analysis' # analysis => coreRuns' = coreRuns + 1

\* C12: when the user fetch or any page of the repository or event fetch
\* fails, the fetcher returns no partial list, Analyze returns an error and
\* no Analysis, performAnalysis is not invoked and the process exits with
\* status 1; performAnalysis runs only after the user, repository and event
\* fetches have all succeeded, in that order.
C12_FailureStopsRun == [](C12_State) /\ [][C12_Step]_vars

C12_Witness ==
    /\ pc = "exited"
    /\ err = "failed to fetch repos"
    /\ page = 2
    /\ Len(ghRepos) = 2
    /\ user = ghUser
    /\ repos = <<>>
    /\ analysis = NoAnalysis
    /\ coreRuns = 0
    /\ exitStatus = 1


Within(x, lo, hi) == lo <= x /\ x <= hi

\* C13: clamp never changes a value: before clamping Identity lies in
\* [5, 90], Activity in [20, 100], Quality in [20, 60], Maintenance in
\* [30, 100] and Community in [10, 75], so every score equals its unclamped
\* sum and the aggregate lies in [17, 85].
C13_ClampNeverActs ==
    /\ call.fn = "calculateIdentityScore" =>
          (Within(call.unclamped, 5, 90) /\ call.score = call.unclamped)
    /\ call.fn = "calculateActivityScore" =>
          (Within(call.unclamped, 20, 100) /\ call.score = call.unclamped)
    /\ call.fn = "calculateQualityScore" =>
          (Within(call.unclamped, 20, 60) /\ call.score = call.unclamped)
    /\ call.fn = "calculateMaintenanceScore" =>
          (Within(call.unclamped, 30, 100) /\ call.score = call.unclamped)
    /\ call.fn = "calculateCommunityScore" =>
          (Within(call.unclamped, 10, 75) /\ call.score = call.unclamped)
    /\ call.fn = "riskScores" =>
          /\ call.scores = call.unclampedScores
          /\ Within(call.unclampedScores.Identity, 5, 90)
          /\ Within(call.unclampedScores.Activity, 20, 100)
          /\ Within(call.unclampedScores.Quality, 20, 60)
          /\ Within(call.unclampedScores.Maintenance, 30, 100)
          /\ Within(call.unclampedScores.Community, 10, 75)
          /\ Within(call.overallScore, 17, 85)

C13_Witness ==
    /\ call.fn = "riskScores"
    /\ call.unclampedScores.Identity = 90
    /\ call.unclampedScores.Activity = 100
    /\ call.unclampedScores.Quality = 60
    /\ call.unclampedScores.Maintenance = 100
    /\ call.unclampedScores.Community = 75
    /\ call.overallScore = 85

====
